---- MODULE Spec2Model ----
(***************************************************************************)
(* A model of @pixelry/react-scopes: the three containers ObjectScope,     *)
(* ArrayScope and RecordScope, their subscriber sets and notification      *)
(* passes, the factory hooks, and the host components that read a          *)
(* container through `use`.                                                *)
(***************************************************************************)
EXTENDS Integers, Sequences, FiniteSets, TLC

\* ------------------------------------------------------------------ bounds

\* Object contents: { value: n } for n in 1..MaxValue.
MaxValue == 2
\* Longest array a caller passes to ArrayScope.set.
MaxLen == 3
\* Host components that may read the container through `use`.
NumConsumers == 2

\* ------------------------------------------------------- JavaScript values

\* A value is [tag, ref, val]: ref is the identity of an object (0 for a
\* primitive), so that record equality is Object.is.
Undefined == [tag |-> "undefined", ref |-> 0, val |-> 0]

Num(n) == [tag |-> "number", ref |-> 0, val |-> n]

\* The object { value: n } with identity r; n = 0 is the object {}.
Obj(r, n) == [tag |-> "object", ref |-> r, val |-> n]

\* The array with identity r and elements items.
Arr(r, items) == [tag |-> "array", ref |-> r, val |-> items]

\* The function every plain object inherits as its "toString" property.
InheritedFn == [tag |-> "function", ref |-> 0, val |-> 0]

\* Marks a property an object does not have as its own.
NoProp == [tag |-> "noprop", ref |-> 0, val |-> 0]

\* The identity of the copy a constructor makes: no caller holds it.
OwnRef == 0

\* The identity of an object or array the caller made.
CallerRef == 1

\* The identity of the object, array or record the caller passes as the
\* initial value.
InitialRef == 2

\* The callback of component c, as a value.
Callback(c) == [tag |-> "callback", ref |-> c, val |-> 0]

\* The objects a caller passes to set: { value: n }.
ObjectValues == {Obj(CallerRef, n) : n \in 1..MaxValue}

Iota(n) == [i \in 1..n |-> i - 1]

\* The arrays a caller passes to set: [], [0], [0, 1], ...
ArrayValues == {Arr(CallerRef, Iota(n)) : n \in 0..MaxLen}

Range(s) == {s[i] : i \in DOMAIN s}

RECURSIVE SeqMax(_)
SeqMax(s) ==
  IF Len(s) = 1 THEN s[1]
  ELSE LET m == SeqMax(Tail(s)) IN IF s[1] > m THEN s[1] ELSE m

\* ------------------------------------------------------------------- keys

KeyNum1 == [type |-> "number", name |-> "1"]
KeyStr1 == [type |-> "string", name |-> "1"]
KeySym == [type |-> "symbol", name |-> "s"]
KeyToString == [type |-> "string", name |-> "toString"]
NoKey == [type |-> "none", name |-> ""]

Keys == {KeyNum1, KeyStr1, KeySym, KeyToString}

\* data[prop] and callbacks[prop] convert prop to a property key: a number
\* becomes its decimal string, strings and symbols are kept.
ToPropertyKey(prop) ==
  IF prop.type = "number" THEN [type |-> "string", name |-> prop.name] ELSE prop

PropKeys == {ToPropertyKey(k) : k \in Keys}

\* The property names in PropKeys that a plain object ({...initial}, {})
\* inherits from Object.prototype.
ObjectPrototype == {KeyToString}

\* ------------------------------------------------------------ Set<Callback>

\* A Set that adds a callback once more when it is already a member.
AppendCallback(set, callback) == Append(set, callback)

\* A Set<Callback> is the sequence of its members in insertion order.
SetAdd(set, callback) ==
  IF callback \in Range(set) THEN set ELSE Append(set, callback)

SetDelete(set, callback) == SelectSeq(set, LAMBDA x : x # callback)

\* An own property of RecordScope.callbacks: has is FALSE where the object has
\* no own property for the key.
NoSet == [has |-> FALSE, set |-> <<>>]

OwnSet(set) == [has |-> TRUE, set |-> set]

\* -------------------------------------------------------------- variables

VARIABLES
  kind,          \* which container the program uses: "object", "array", "record"
  initial,       \* the value passed to the factory hook / constructor
  keys,          \* the keys the program uses with the RecordScope
  inst,          \* the container instance the owner's useState holds
  objData,       \* ObjectScope.data
  objCallbacks,  \* ObjectScope.callbacks
  arrData,       \* ArrayScope.data
  arrCallbacks,  \* ArrayScope.callbacks
  recRef,        \* the identity of the object RecordScope.data holds
  recData,       \* RecordScope.data: property key -> value or NoProp
  recCallbacks,  \* RecordScope.callbacks: property key -> Set or NoSet
  call,          \* the container method call in progress or last finished
  consumer       \* the host components reading the container through `use`

vars == <<kind, initial, keys, inst, objData, objCallbacks, arrData,
          arrCallbacks, recRef, recData, recCallbacks, call, consumer>>

Consumers == 1..NumConsumers

Kinds == {"object", "array", "record"}

\* The two keys a program uses with one RecordScope: a number and its
\* decimal string, a string and a symbol, or a symbol and the name of a
\* property of Object.prototype.
KeyPairs ==
  {<<KeyNum1, KeyStr1>>, <<KeyStr1, KeySym>>, <<KeySym, KeyToString>>}

\* The initial values a program passes: none (undefined), or an object
\* { value: 1 } or array [0] it made; to a RecordScope, a record with an
\* entry at its first key.
Initials(k, ks) ==
  CASE k = "object" -> {Undefined, Obj(InitialRef, 1)}
    [] k = "array" -> {Undefined, Arr(InitialRef, <<0>>)}
    [] k = "record" ->
         { [p \in PropKeys |->
              IF p = ToPropertyKey(ks[1]) THEN Obj(CallerRef, 1) ELSE NoProp] }

\* ------------------------------------------------------------ constructors

\* A constructor that keeps the object it is given: this.data = initial.
ObjectScopeAlias(init) == [data |-> init, callbacks |-> <<>>]

\* this.data = { ...initial }; this.callbacks = new Set()
ObjectScopeNew(init) ==
  [data |-> Obj(OwnRef, IF init.tag = "object" THEN init.val ELSE 0),
   callbacks |-> <<>>]

\* constructor(initial = []): this.data = [...initial]
ArrayScopeNew(init) ==
  [data |-> Arr(OwnRef, IF init.tag = "undefined" THEN <<>> ELSE init.val),
   callbacks |-> <<>>]

\* constructor(initial = {}): this.data = { ...initial }; this.callbacks = {}
RecordScopeNew(init) ==
  [ref |-> OwnRef,
   data |-> [p \in PropKeys |-> init[p]],
   callbacks |-> [p \in PropKeys |-> NoSet]]

\* The containers of the kinds the program does not use.
NoObject == [data |-> Undefined, callbacks |-> <<>>]
NoArray == [data |-> Arr(OwnRef, <<>>), callbacks |-> <<>>]
NoRecord ==
  [ref |-> OwnRef,
   data |-> [p \in PropKeys |-> NoProp],
   callbacks |-> [p \in PropKeys |-> NoSet]]

\* ----------------------------------------------------------- factory hooks

\* The instance built on the owner's first render, and one built by any
\* later render.
FirstInstance == 1
LaterInstance == 2

\* The hook state of a component that has not rendered yet.
NoHook == [id |-> 0, scope |-> NoObject]

\* React's useState(initialState)[0]: the state memoized by the first render.
UseState(memoized, initialState) ==
  IF memoized.id = 0 THEN initialState ELSE memoized

\* A factory hook that returns the container it has just built.
UseObjectScopeFresh(memoized, init, id) ==
  [id |-> id, scope |-> ObjectScopeNew(init)]

\* useObjectScope(initial): useState(new ObjectScope(initial))[0]
UseObjectScope(memoized, init, id) ==
  UseState(memoized, [id |-> id, scope |-> ObjectScopeNew(init)])

UseArrayScope(memoized, init, id) ==
  UseState(memoized, [id |-> id, scope |-> ArrayScopeNew(init)])

UseRecordScope(memoized, init, id) ==
  UseState(memoized, [id |-> id, scope |-> RecordScopeNew(init)])

\* ------------------------------------------------------------------ state

\* The record of a container method call: the callbacks registered for its
\* scope when it started, those it has invoked, those the earlier calls of
\* the same handler invoked (one sequence per call), those the mutation calls
\* made by callbacks during the call invoked (one sequence per call), and
\* what it returned. For a call whose notification pass is followed step by
\* step: the position of each running forEach, outermost first (frames), the
\* callbacks that were unsubscribed and subscribed by callbacks of the pass,
\* the values the invoked callbacks read with get, the callbacks that called
\* set or delete during the call (wrote), and the callbacks that have been
\* registered since before the last change of their scope's value and have
\* not been invoked since (owed).
Called(op, key, arg, regd, status, ret) ==
  [op |-> op, key |-> key, arg |-> arg, regd |-> regd, invoked |-> <<>>,
   earlier |-> <<>>, nested |-> <<>>, status |-> status, ret |-> ret,
   frames |-> <<>>, removed |-> {}, added |-> {}, seen |-> {}, wrote |-> {},
   owed |-> {}]

NoCall == Called("none", NoKey, Undefined, <<>>, "returned", Undefined)

\* released: the component's unsubscribe function has been called and is
\* still held by a caller.
Unmounted ==
  [mounted |-> FALSE, value |-> Undefined, pending |-> FALSE, released |-> FALSE]

\* A component that has rendered value and has no re-render scheduled.
Rendered(value) ==
  [mounted |-> TRUE, value |-> value, pending |-> FALSE, released |-> FALSE]

Init ==
  /\ kind \in Kinds
  /\ keys \in (IF kind = "record" THEN KeyPairs ELSE {<<>>})
  /\ initial \in Initials(kind, keys)
  /\ inst = UseState(NoHook, [id |-> FirstInstance, scope |-> NoObject]).id
  /\ LET obj == IF kind = "object"
                THEN UseObjectScope(NoHook, initial, FirstInstance).scope
                ELSE NoObject
         arr == IF kind = "array"
                THEN UseArrayScope(NoHook, initial, FirstInstance).scope
                ELSE NoArray
         rec == IF kind = "record"
                THEN UseRecordScope(NoHook, initial, FirstInstance).scope
                ELSE NoRecord
     IN /\ objData = obj.data
        /\ objCallbacks = obj.callbacks
        /\ arrData = arr.data
        /\ arrCallbacks = arr.callbacks
        /\ recRef = rec.ref
        /\ recData = rec.data
        /\ recCallbacks = rec.callbacks
        /\ call = NoCall
  /\ consumer = [c \in Consumers |-> Unmounted]

\* --------------------------------------------------------------- reads

\* ObjectScope.get(): return this.data
ObjectScopeGet == objData

\* ArrayScope.get(): return this.data
ArrayScopeGet == arrData

\* this.data[prop] of a RecordScope: the own property, else the property
\* inherited from Object.prototype, else undefined.
RecordDataGet(data, prop) ==
  LET p == ToPropertyKey(prop)
  IN IF data[p] # NoProp THEN data[p]
     ELSE IF p \in ObjectPrototype THEN InheritedFn
     ELSE Undefined

\* RecordScope.get(prop): return this.data[prop]
RecordScopeGet(prop) == RecordDataGet(recData, prop)

\* The snapshot function `use` applies when the caller passes none.
DefaultSnapshot(value) == value

\* A snapshot function a caller passes: value => value?.value for an object,
\* value => value.length for an array.
CustomSnapshot(value) ==
  CASE value.tag = "object" -> IF value.val > 0 THEN Num(value.val) ELSE Undefined
    [] value.tag = "array" -> Num(Len(value.val))
    [] OTHER -> Undefined

\* The snapshot function component c passes to `use`: components 1, 4, 5, 8,
\* ... pass none, the others pass CustomSnapshot.
UsesDefault(c) == (c \div 2) % 2 = 0

\* A getSnapshot that returns the raw value whatever function was passed.
IgnoreSnapshot(c, value) == DefaultSnapshot(value)

ApplySnapshot(c, value) ==
  IF UsesDefault(c) THEN DefaultSnapshot(value) ELSE CustomSnapshot(value)

\* The getSnapshot function `use` hands to useSyncExternalStore.
ObjectScopeSnapshot(c) == ApplySnapshot(c, objData)

ArrayScopeSnapshot(c) == ApplySnapshot(c, arrData)

RecordScopeSnapshot(c, prop) == ApplySnapshot(c, RecordDataGet(recData, prop))

GetSnapshot(c, prop) ==
  CASE kind = "object" -> ObjectScopeSnapshot(c)
    [] kind = "array" -> ArrayScopeSnapshot(c)
    [] kind = "record" -> RecordScopeSnapshot(c, prop)

\* -------------------------------------------------- subscribe, unsubscribe

\* ObjectScope.subscribe(callback): this.callbacks.add(callback)
ObjectScopeSubscribe(callbacks, callback) == SetAdd(callbacks, callback)

\* An unsubscribe function that leaves the callback registered.
KeepCallback(callbacks, callback) == callbacks

\* The function ObjectScope.subscribe returns: this.callbacks.delete(callback)
ObjectScopeUnsubscribe(callbacks, callback) == SetDelete(callbacks, callback)

ArrayScopeSubscribe(callbacks, callback) == SetAdd(callbacks, callback)

\* An unsubscribe function that removes the last member of the set when the
\* callback is not a member (splice at the index -1).
SpliceCallback(callbacks, callback) ==
  IF callback \in Range(callbacks) \/ callbacks = <<>>
  THEN SetDelete(callbacks, callback)
  ELSE SubSeq(callbacks, 1, Len(callbacks) - 1)

ArrayScopeUnsubscribe(callbacks, callback) == SetDelete(callbacks, callback)

\* this.callbacks[prop] of a RecordScope: "set" for an own Set, "function"
\* for a property inherited from Object.prototype, else "undefined".
RecordCallbacksGet(callbacks, prop) ==
  LET p == ToPropertyKey(prop)
  IN IF callbacks[p].has THEN "set"
     ELSE IF p \in ObjectPrototype THEN "function"
     ELSE "undefined"

\* RecordScope.subscribe(callback, prop). An inherited function is truthy, so
\* no Set is made for it, and calling its missing add method throws.
RecordScopeSubscribe(callbacks, callback, prop) ==
  LET p == ToPropertyKey(prop)
      found == RecordCallbacksGet(callbacks, prop)
  IN CASE found = "undefined" ->
            [threw |-> FALSE,
             callbacks |-> [callbacks EXCEPT ![p] = OwnSet(SetAdd(<<>>, callback))]]
       [] found = "set" ->
            [threw |-> FALSE,
             callbacks |-> [callbacks EXCEPT ![p] = OwnSet(SetAdd(@.set, callback))]]
       [] found = "function" -> [threw |-> TRUE, callbacks |-> callbacks]

\* The function RecordScope.subscribe returns:
\* this.callbacks[prop]?.delete(callback)
RecordScopeUnsubscribe(callbacks, callback, prop) ==
  LET p == ToPropertyKey(prop)
      found == RecordCallbacksGet(callbacks, prop)
  IN CASE found = "undefined" -> [threw |-> FALSE, callbacks |-> callbacks]
       [] found = "set" ->
            [threw |-> FALSE,
             callbacks |-> [callbacks EXCEPT ![p] = OwnSet(SetDelete(@.set, callback))]]
       [] found = "function" -> [threw |-> TRUE, callbacks |-> callbacks]

\* ------------------------------------------------------- host components

\* The callback useSyncExternalStore subscribes for component c: when the
\* snapshot of the container's value raw is no longer the value c rendered,
\* c is scheduled to re-render.
HandleStoreChange(cons, c, raw) ==
  IF cons[c].mounted /\ ApplySnapshot(c, raw) # cons[c].value
  THEN [cons EXCEPT ![c].pending = TRUE]
  ELSE cons

\* The key component c passes to `use` of a RecordScope: odd components the
\* program's first key, even components its second.
UseKey(c) == IF kind = "record" THEN keys[((c - 1) % 2) + 1] ELSE NoKey

\* The subscriber sets after component c's subscribe effect ran for prop.
Subscribed(c, prop) ==
  CASE kind = "object" ->
         [threw |-> FALSE, obj |-> ObjectScopeSubscribe(objCallbacks, c),
          arr |-> arrCallbacks, rec |-> recCallbacks]
    [] kind = "array" ->
         [threw |-> FALSE, obj |-> objCallbacks,
          arr |-> ArrayScopeSubscribe(arrCallbacks, c), rec |-> recCallbacks]
    [] kind = "record" ->
         LET r == RecordScopeSubscribe(recCallbacks, c, prop)
         IN [threw |-> r.threw, obj |-> objCallbacks, arr |-> arrCallbacks,
             rec |-> r.callbacks]

\* The subscriber sets after the unsubscribe function of component c ran.
Unsubscribed(c, prop) ==
  CASE kind = "object" ->
         [threw |-> FALSE, obj |-> ObjectScopeUnsubscribe(objCallbacks, c),
          arr |-> arrCallbacks, rec |-> recCallbacks]
    [] kind = "array" ->
         [threw |-> FALSE, obj |-> objCallbacks,
          arr |-> ArrayScopeUnsubscribe(arrCallbacks, c), rec |-> recCallbacks]
    [] kind = "record" ->
         LET r == RecordScopeUnsubscribe(recCallbacks, c, prop)
         IN [threw |-> r.threw, obj |-> objCallbacks, arr |-> arrCallbacks,
             rec |-> r.callbacks]

\* The subscriber sets after component c re-subscribed: the effect of the
\* previous render is cleaned up, then the effect of this render runs (the
\* subscribe function `use` passes is a new one on every render).
Resubscribed(c, prop) ==
  LET u == Unsubscribed(c, prop)
  IN CASE kind = "object" ->
            [threw |-> FALSE, obj |-> ObjectScopeSubscribe(u.obj, c),
             arr |-> arrCallbacks, rec |-> recCallbacks]
       [] kind = "array" ->
            [threw |-> FALSE, obj |-> objCallbacks,
             arr |-> ArrayScopeSubscribe(u.arr, c), rec |-> recCallbacks]
       [] kind = "record" ->
            LET r == RecordScopeSubscribe(u.rec, c, prop)
            IN [threw |-> u.threw \/ r.threw, obj |-> objCallbacks,
                arr |-> arrCallbacks, rec |-> r.callbacks]

\* Component c mounts: its first render calls use(prop), then its effect
\* subscribes. A component whose effect throws is unmounted again.
Mount(c) ==
  /\ ~consumer[c].mounted
  /\ LET prop == UseKey(c)
         s == Subscribed(c, prop)
         value == GetSnapshot(c, prop)
     IN /\ objCallbacks' = s.obj
        /\ arrCallbacks' = s.arr
        /\ recCallbacks' = s.rec
        /\ consumer' = [consumer EXCEPT ![c] =
             IF s.threw THEN Unmounted ELSE Rendered(value)]
        /\ call' = Called("use", prop, Undefined, <<>>,
                          IF s.threw THEN "threw" ELSE "returned", value)
  /\ UNCHANGED <<kind, initial, keys, inst, recRef, objData, arrData, recData>>

\* Component c renders again (scheduled by its callback, or by its parent):
\* use returns the current snapshot, and the effect re-subscribes.
Render(c) ==
  /\ consumer[c].mounted
  /\ LET prop == UseKey(c)
         s == Resubscribed(c, prop)
         value == GetSnapshot(c, prop)
     IN /\ objCallbacks' = s.obj
        /\ arrCallbacks' = s.arr
        /\ recCallbacks' = s.rec
        /\ consumer' = [consumer EXCEPT ![c] =
             IF s.threw THEN Unmounted ELSE Rendered(value)]
        /\ call' = Called("use", prop, Undefined, <<>>,
                          IF s.threw THEN "threw" ELSE "returned", value)
  /\ UNCHANGED <<kind, initial, keys, inst, recRef, objData, arrData, recData>>

\* Component c unmounts: the cleanup of its effect calls the unsubscribe
\* function.
Unmount(c) ==
  /\ consumer[c].mounted
  /\ LET prop == UseKey(c)
         s == Unsubscribed(c, prop)
     IN /\ objCallbacks' = s.obj
        /\ arrCallbacks' = s.arr
        /\ recCallbacks' = s.rec
        /\ call' = Called("unsubscribe", prop, Undefined, <<>>,
                          IF s.threw THEN "threw" ELSE "returned", Undefined)
  /\ consumer' = [consumer EXCEPT ![c] = Unmounted]
  /\ UNCHANGED <<kind, initial, keys, inst, recRef, objData, arrData, recData>>

\* A callback a handler subscribes itself before it calls set and
\* unsubscribes after: it is no component's callback, and it is the last
\* member of the subscriber set. When it is invoked by the handler's set it
\* calls set or delete once.
Writer == 0

\* ---------------------------------------------------------- direct callers

\* The subscriber set of the scope component c subscribes to.
ScopeCallbacks(c) ==
  CASE kind = "object" -> objCallbacks
    [] kind = "array" -> arrCallbacks
    [] kind = "record" -> recCallbacks[ToPropertyKey(UseKey(c))].set

\* Component c unmounts as in Unmount, and a caller keeps the unsubscribe
\* function it has called.
Release(c) ==
  /\ consumer[c].mounted
  /\ LET prop == UseKey(c)
         s == Unsubscribed(c, prop)
     IN /\ objCallbacks' = s.obj
        /\ arrCallbacks' = s.arr
        /\ recCallbacks' = s.rec
        /\ call' = Called("unsubscribe", prop, Callback(c), ScopeCallbacks(c),
                          IF s.threw THEN "threw" ELSE "returned", Undefined)
  /\ consumer' = [consumer EXCEPT ![c] = [Unmounted EXCEPT !.released = TRUE]]
  /\ UNCHANGED <<kind, initial, keys, inst, recRef, objData, arrData, recData>>

\* The unsubscribe function of component c is called again.
UnsubscribeAgain(c) ==
  /\ ~consumer[c].mounted
  /\ consumer[c].released
  /\ LET prop == UseKey(c)
         s == Unsubscribed(c, prop)
     IN /\ objCallbacks' = s.obj
        /\ arrCallbacks' = s.arr
        /\ recCallbacks' = s.rec
        /\ call' = Called("unsubscribe again", prop, Callback(c),
                          ScopeCallbacks(c),
                          IF s.threw THEN "threw" ELSE "returned", Undefined)
  /\ UNCHANGED <<kind, initial, keys, inst, recRef, objData, arrData, recData,
                 consumer>>

\* subscribe is called with the callback of component c while that callback
\* is registered for the scope.
SubscribeAgain(c) ==
  /\ consumer[c].mounted
  /\ c \in Range(ScopeCallbacks(c))
  /\ LET prop == UseKey(c)
         s == Subscribed(c, prop)
     IN /\ objCallbacks' = s.obj
        /\ arrCallbacks' = s.arr
        /\ recCallbacks' = s.rec
        /\ call' = Called("subscribe", prop, Callback(c), ScopeCallbacks(c),
                          IF s.threw THEN "threw" ELSE "returned", Undefined)
  /\ UNCHANGED <<kind, initial, keys, inst, recRef, objData, arrData, recData,
                 consumer>>

\* The caller that has just subscribed the registered callback of component
\* c a second time calls the unsubscribe function this second subscribe
\* returned. The component stays mounted: the unsubscribe function of its
\* own subscribe has not been called.
UnsubscribeOne(c) ==
  /\ call.op = "subscribe"
  /\ call.status = "returned"
  /\ call.arg = Callback(c)
  /\ LET prop == UseKey(c)
         s == Unsubscribed(c, prop)
     IN /\ objCallbacks' = s.obj
        /\ arrCallbacks' = s.arr
        /\ recCallbacks' = s.rec
        /\ call' = Called("unsubscribe one", prop, Callback(c), ScopeCallbacks(c),
                          IF s.threw THEN "threw" ELSE "returned", Undefined)
  /\ UNCHANGED <<kind, initial, keys, inst, recRef, objData, arrData, recData,
                 consumer>>

\* delete(prop) has just returned and had the callback of component c in its
\* pass: a caller subscribes that callback for the key again.
SubscribeAfterDelete(c) ==
  /\ call.op = "delete"
  /\ call.status = "returned"
  /\ c \in Range(call.regd)
  /\ LET s == Subscribed(c, call.key)
     IN /\ objCallbacks' = s.obj
        /\ arrCallbacks' = s.arr
        /\ recCallbacks' = s.rec
        /\ call' = Called("subscribe after delete", call.key, Callback(c),
                          ScopeCallbacks(c),
                          IF s.threw THEN "threw" ELSE "returned", Undefined)
  /\ UNCHANGED <<kind, initial, keys, inst, recRef, objData, arrData, recData,
                 consumer>>

\* The unsubscribe function the callback of component c got from its
\* subscribe before the delete is called, after the callback was subscribed
\* again.
StaleUnsubscribe(c) ==
  /\ call.op = "subscribe after delete"
  /\ call.status = "returned"
  /\ call.arg = Callback(c)
  /\ LET s == Unsubscribed(c, call.key)
     IN /\ objCallbacks' = s.obj
        /\ arrCallbacks' = s.arr
        /\ recCallbacks' = s.rec
        /\ call' = Called("stale unsubscribe", call.key, Callback(c),
                          recCallbacks[ToPropertyKey(call.key)].set,
                          IF s.threw THEN "threw" ELSE "returned", Undefined)
  /\ UNCHANGED <<kind, initial, keys, inst, recRef, objData, arrData, recData,
                 consumer>>

\* ------------------------------------------------------ notification pass

\* set.forEach(callback => callback()) from the i-th member on: every member
\* is called in insertion order. acc holds the components' state and the
\* callbacks invoked so far; raw is the value the callbacks' snapshots read.
RECURSIVE ForEach(_, _, _, _)
ForEach(set, i, acc, raw) ==
  IF i > Len(set) THEN acc
  ELSE ForEach(set, i + 1,
               [consumer |-> HandleStoreChange(acc.consumer, set[i], raw),
                invoked |-> Append(acc.invoked, set[i])],
               raw)

\* A notification pass that stops after the first callback.
ObjectScopeEmitFirst(callbacks, cons, data) ==
  ForEach(IF callbacks = <<>> THEN <<>> ELSE <<callbacks[1]>>, 1,
          [consumer |-> cons, invoked |-> <<>>], data)

\* A notification pass that is skipped when the value written is the value
\* the container held.
ObjectScopeEmitChanged(callbacks, cons, data) ==
  IF data = objData THEN [consumer |-> cons, invoked |-> <<>>]
  ELSE ForEach(callbacks, 1, [consumer |-> cons, invoked |-> <<>>], data)

\* ObjectScope.emit(): this.callbacks.forEach(callback => callback())
ObjectScopeEmit(callbacks, cons, data) ==
  ForEach(callbacks, 1, [consumer |-> cons, invoked |-> <<>>], data)

\* ArrayScope.emit()
ArrayScopeEmit(callbacks, cons, data) ==
  ForEach(callbacks, 1, [consumer |-> cons, invoked |-> <<>>], data)

\* A notification pass over the callbacks of both of the program's keys.
RecordScopeEmitAll(callbacks, cons, data, prop) ==
  LET both == callbacks[ToPropertyKey(keys[1])].set
                \o callbacks[ToPropertyKey(keys[2])].set
  IN [threw |-> FALSE,
      pass |-> ForEach(both, 1, [consumer |-> cons, invoked |-> <<>>],
                       RecordDataGet(data, prop))]

\* RecordScope.emit(prop): this.callbacks[prop]?.forEach(...). Calling the
\* missing forEach method of an inherited function throws.
RecordScopeEmit(callbacks, cons, data, prop) ==
  LET found == RecordCallbacksGet(callbacks, prop)
      none == [consumer |-> cons, invoked |-> <<>>]
  IN CASE found = "undefined" -> [threw |-> FALSE, pass |-> none]
       [] found = "function" -> [threw |-> TRUE, pass |-> none]
       [] found = "set" ->
            [threw |-> FALSE,
             pass |-> ForEach(callbacks[ToPropertyKey(prop)].set, 1, none,
                              RecordDataGet(data, prop))]

\* ------------------------------------------------------------ ObjectScope

\* A set(value) that stores a copy { ...value } of its argument.
ObjectScopeSetCopy(value) ==
  /\ kind = "object"
  /\ LET copy == Obj(OwnRef, IF value.tag = "object" THEN value.val ELSE 0)
         pass == ObjectScopeEmit(objCallbacks, consumer, copy)
     IN /\ objData' = copy
        /\ consumer' = pass.consumer
        /\ call' = [Called("set", NoKey, value, objCallbacks, "returned", copy)
                      EXCEPT !.invoked = pass.invoked]
  /\ UNCHANGED <<kind, initial, keys, inst, recRef, objCallbacks, arrData, arrCallbacks,
                 recData, recCallbacks>>

\* set(value): this.data = value; this.emit(); return this.data
ObjectScopeSet(value) ==
  /\ kind = "object"
  /\ objData' = value
  /\ LET pass == ObjectScopeEmit(objCallbacks, consumer, value)
     IN /\ consumer' = pass.consumer
        /\ call' = [Called("set", NoKey, value, objCallbacks, "returned", value)
                      EXCEPT !.invoked = pass.invoked]
  /\ UNCHANGED <<kind, initial, keys, inst, recRef, objCallbacks, arrData, arrCallbacks,
                 recData, recCallbacks>>

\* A handler calls set(value) and then set(next), nothing else in between.
ObjectScopeSetTwice(value, next) ==
  /\ kind = "object"
  /\ objData' = next
  /\ LET first == ObjectScopeEmit(objCallbacks, consumer, value)
         second == ObjectScopeEmit(objCallbacks, first.consumer, next)
     IN /\ consumer' = second.consumer
        /\ call' = [Called("set", NoKey, next, objCallbacks, "returned", next)
                      EXCEPT !.invoked = second.invoked,
                             !.earlier = <<first.invoked>>]
  /\ UNCHANGED <<kind, initial, keys, inst, recRef, objCallbacks, arrData,
                 arrCallbacks, recData, recCallbacks>>

\* A handler subscribes the Writer, calls set(value) and unsubscribes it; the
\* Writer calls set(inner) during the notification pass of set(value).
ObjectScopeSetReentrant(value, inner) ==
  /\ kind = "object"
  /\ objData' = inner
  /\ LET sub == ObjectScopeSubscribe(objCallbacks, Writer)
         outer == ObjectScopeEmit(objCallbacks, consumer, value)
         pass == ObjectScopeEmit(objCallbacks, outer.consumer, inner)
     IN /\ consumer' = pass.consumer
        /\ objCallbacks' = ObjectScopeUnsubscribe(sub, Writer)
        /\ call' = [Called("set", NoKey, value, objCallbacks, "returned", inner)
                      EXCEPT !.invoked = outer.invoked,
                             !.nested = <<pass.invoked>>]
  /\ UNCHANGED <<kind, initial, keys, inst, recRef, arrData, arrCallbacks,
                 recData, recCallbacks>>

\* A get() that runs a notification pass.
ObjectGetNotifying ==
  /\ kind = "object"
  /\ LET pass == ForEach(objCallbacks, 1, [consumer |-> consumer, invoked |-> <<>>],
                         objData)
     IN /\ consumer' = pass.consumer
        /\ call' = [Called("get", NoKey, Undefined, <<>>, "returned", ObjectScopeGet)
                      EXCEPT !.invoked = pass.invoked]
  /\ UNCHANGED <<kind, initial, keys, inst, recRef, objData, objCallbacks, arrData,
                 arrCallbacks, recData, recCallbacks>>

\* A caller calls get().
ObjectGet ==
  /\ kind = "object"
  /\ call' = Called("get", NoKey, Undefined, <<>>, "returned", ObjectScopeGet)
  /\ UNCHANGED <<kind, initial, keys, inst, recRef, objData, objCallbacks, arrData,
                 arrCallbacks, recData, recCallbacks, consumer>>

\* ------------------------------------------------------------- ArrayScope

\* A set(value) that notifies without storing value.
ArrayScopeSetStale(value) ==
  /\ kind = "array"
  /\ arrData' = arrData
  /\ LET pass == ForEach(arrCallbacks, 1, [consumer |-> consumer, invoked |-> <<>>],
                         arrData)
     IN /\ consumer' = pass.consumer
        /\ call' = [Called("set", NoKey, value, arrCallbacks, "returned", arrData)
                      EXCEPT !.invoked = pass.invoked]
  /\ UNCHANGED <<kind, initial, keys, inst, recRef, objData, objCallbacks, arrCallbacks,
                 recData, recCallbacks>>

\* set(value): this.data = value; this.emit(); return this.data
ArrayScopeSet(value) ==
  /\ kind = "array"
  /\ arrData' = value
  /\ LET pass == ArrayScopeEmit(arrCallbacks, consumer, value)
     IN /\ consumer' = pass.consumer
        /\ call' = [Called("set", NoKey, value, arrCallbacks, "returned", value)
                      EXCEPT !.invoked = pass.invoked]
  /\ UNCHANGED <<kind, initial, keys, inst, recRef, objData, objCallbacks, arrCallbacks,
                 recData, recCallbacks>>

\* A handler calls set(value) and then set(next), nothing else in between.
ArrayScopeSetTwice(value, next) ==
  /\ kind = "array"
  /\ arrData' = next
  /\ LET first == ArrayScopeEmit(arrCallbacks, consumer, value)
         second == ArrayScopeEmit(arrCallbacks, first.consumer, next)
     IN /\ consumer' = second.consumer
        /\ call' = [Called("set", NoKey, next, arrCallbacks, "returned", next)
                      EXCEPT !.invoked = second.invoked,
                             !.earlier = <<first.invoked>>]
  /\ UNCHANGED <<kind, initial, keys, inst, recRef, objData, objCallbacks,
                 arrCallbacks, recData, recCallbacks>>

\* A set that returns its argument: return value.
ReturnArgument(data, value) == value

\* ArrayScope.set(value), last statement: return this.data
ArrayScopeSetReturn(data, value) == data

\* A handler subscribes the Writer, calls set(value) and unsubscribes it; the
\* Writer calls set(inner) during the notification pass of set(value).
ArrayScopeSetReentrant(value, inner) ==
  /\ kind = "array"
  /\ arrData' = inner
  /\ LET sub == ArrayScopeSubscribe(arrCallbacks, Writer)
         outer == ArrayScopeEmit(arrCallbacks, consumer, value)
         pass == ArrayScopeEmit(arrCallbacks, outer.consumer, inner)
     IN /\ consumer' = pass.consumer
        /\ arrCallbacks' = ArrayScopeUnsubscribe(sub, Writer)
        /\ call' = [Called("set", NoKey, value, arrCallbacks, "returned",
                           ArrayScopeSetReturn(inner, value))
                      EXCEPT !.invoked = outer.invoked,
                             !.nested = <<pass.invoked>>]
  /\ UNCHANGED <<kind, initial, keys, inst, recRef, objData, objCallbacks,
                 recData, recCallbacks>>

ArrayGet ==
  /\ kind = "array"
  /\ call' = Called("get", NoKey, Undefined, <<>>, "returned", ArrayScopeGet)
  /\ UNCHANGED <<kind, initial, keys, inst, recRef, objData, objCallbacks, arrData,
                 arrCallbacks, recData, recCallbacks, consumer>>

\* [...get(), Math.max(...get()) + 1]
Extended(items) == Append(items, SeqMax(items) + 1)

\* The click handler of the tests: set([...get(), Math.max(...get()) + 1]),
\* the new array being one no one else holds.
ArrayScopeButton ==
  /\ kind = "array"
  /\ Len(ArrayScopeGet.val) \in 1..(MaxLen - 1)
  /\ LET value == Arr(CallerRef, Extended(ArrayScopeGet.val))
     IN /\ \A c \in Consumers : consumer[c].value # value
        /\ ArrayScopeSet(value)

\* ------------------------------------------------------------ RecordScope

\* this.data[prop] = value
RecordDataSet(data, prop, value) == [data EXCEPT ![ToPropertyKey(prop)] = value]

\* delete this.data[prop]
RecordDataDelete(data, prop) == [data EXCEPT ![ToPropertyKey(prop)] = NoProp]

\* A teardown that clears the Set and leaves it in the mapping.
RecordCallbacksClear(callbacks, prop) ==
  [callbacks EXCEPT ![ToPropertyKey(prop)] =
     IF @.has THEN OwnSet(<<>>) ELSE @]

\* this.callbacks[prop]?.clear(); delete this.callbacks[prop]
RecordCallbacksDelete(callbacks, prop) ==
  [callbacks EXCEPT ![ToPropertyKey(prop)] = NoSet]

\* set(prop, value): this.data[prop] = value; this.emit(prop);
\* return this.data[prop]
RecordScopeSet(prop, value) ==
  /\ kind = "record"
  /\ LET data == RecordDataSet(recData, prop, value)
         e == RecordScopeEmit(recCallbacks, consumer, data, prop)
     IN /\ recData' = data
        /\ consumer' = e.pass.consumer
        /\ call' = [Called("set", prop, value,
                           recCallbacks[ToPropertyKey(prop)].set,
                           IF e.threw THEN "threw" ELSE "returned",
                           IF e.threw THEN Undefined ELSE RecordDataGet(data, prop))
                      EXCEPT !.invoked = e.pass.invoked]
  /\ UNCHANGED <<kind, initial, keys, inst, recRef, objData, objCallbacks, arrData,
                 arrCallbacks, recCallbacks>>

\* A handler calls set(prop, value) and then set(prop, next), nothing else
\* in between; the first call returns.
RecordScopeSetTwice(prop, value, next) ==
  /\ kind = "record"
  /\ LET data1 == RecordDataSet(recData, prop, value)
         first == RecordScopeEmit(recCallbacks, consumer, data1, prop)
         data2 == RecordDataSet(data1, prop, next)
         second == RecordScopeEmit(recCallbacks, first.pass.consumer, data2, prop)
     IN /\ ~first.threw
        /\ recData' = data2
        /\ consumer' = second.pass.consumer
        /\ call' = [Called("set", prop, next,
                           recCallbacks[ToPropertyKey(prop)].set,
                           IF second.threw THEN "threw" ELSE "returned",
                           IF second.threw THEN Undefined
                           ELSE RecordDataGet(data2, prop))
                      EXCEPT !.invoked = second.pass.invoked,
                             !.earlier = <<first.pass.invoked>>]
  /\ UNCHANGED <<kind, initial, keys, inst, recRef, objData, objCallbacks, arrData,
                 arrCallbacks, recCallbacks>>

\* A handler subscribes the Writer for prop, calls set(prop, value) and
\* unsubscribes it; during the notification pass of set(prop, value) the
\* Writer calls set(prop, inner), or delete(prop) when inner = NoProp.
RecordScopeSetReentrant(prop, value, inner) ==
  /\ kind = "record"
  /\ LET sub == RecordScopeSubscribe(recCallbacks, Writer, prop)
         data1 == RecordDataSet(recData, prop, value)
         outer == RecordScopeEmit(recCallbacks, consumer, data1, prop)
         data2 == IF inner = NoProp THEN RecordDataDelete(data1, prop)
                  ELSE RecordDataSet(data1, prop, inner)
         e == RecordScopeEmit(recCallbacks, outer.pass.consumer, data2, prop)
         after == IF inner = NoProp
                  THEN RecordCallbacksDelete(sub.callbacks, prop)
                  ELSE sub.callbacks
     IN /\ ~sub.threw
        /\ recData' = data2
        /\ consumer' = e.pass.consumer
        /\ recCallbacks' = RecordScopeUnsubscribe(after, Writer, prop).callbacks
        /\ call' = [Called("set", prop, value,
                           recCallbacks[ToPropertyKey(prop)].set, "returned",
                           RecordDataGet(data2, prop))
                      EXCEPT !.invoked = outer.pass.invoked,
                             !.nested = <<e.pass.invoked>>]
  /\ UNCHANGED <<kind, initial, keys, inst, recRef, objData, objCallbacks, arrData,
                 arrCallbacks>>

\* A delete(prop) that notifies before it removes the entry.
RecordScopeDeleteEmitFirst(prop) ==
  /\ kind = "record"
  /\ LET e == RecordScopeEmit(recCallbacks, consumer, recData, prop)
     IN /\ recData' = RecordDataDelete(recData, prop)
        /\ consumer' = e.pass.consumer
        /\ recCallbacks' = IF e.threw THEN recCallbacks
                           ELSE RecordCallbacksDelete(recCallbacks, prop)
        /\ call' = [Called("delete", prop, Undefined,
                           recCallbacks[ToPropertyKey(prop)].set,
                           IF e.threw THEN "threw" ELSE "returned", Undefined)
                      EXCEPT !.invoked = e.pass.invoked]
  /\ UNCHANGED <<kind, initial, keys, inst, recRef, objData, objCallbacks, arrData,
                 arrCallbacks>>

\* delete(prop): delete this.data[prop]; this.emit(prop);
\* this.callbacks[prop]?.clear(); delete this.callbacks[prop]
RecordScopeDelete(prop) ==
  /\ kind = "record"
  /\ LET data == RecordDataDelete(recData, prop)
         e == RecordScopeEmit(recCallbacks, consumer, data, prop)
     IN /\ recData' = data
        /\ consumer' = e.pass.consumer
        /\ recCallbacks' = IF e.threw THEN recCallbacks
                           ELSE RecordCallbacksDelete(recCallbacks, prop)
        /\ call' = [Called("delete", prop, Undefined,
                           recCallbacks[ToPropertyKey(prop)].set,
                           IF e.threw THEN "threw" ELSE "returned", Undefined)
                      EXCEPT !.invoked = e.pass.invoked]
  /\ UNCHANGED <<kind, initial, keys, inst, recRef, objData, objCallbacks, arrData,
                 arrCallbacks>>

\* A caller calls get(prop).
RecordGet(prop) ==
  /\ kind = "record"
  /\ call' = Called("get", prop, Undefined, <<>>, "returned", RecordScopeGet(prop))
  /\ UNCHANGED <<kind, initial, keys, inst, recRef, objData, objCallbacks, arrData,
                 arrCallbacks, recData, recCallbacks, consumer>>

\* ------------------------------------------------------------------ owner

\* The component that called the factory hook renders again: the hook builds
\* a new container from `initial` and useState returns the memoized one.
OwnerRender ==
  /\ LET obj == IF kind = "object"
                THEN UseObjectScope([id |-> inst, scope |->
                       [data |-> objData, callbacks |-> objCallbacks]],
                       initial, LaterInstance)
                ELSE [id |-> inst, scope |-> NoObject]
         arr == IF kind = "array"
                THEN UseArrayScope([id |-> inst, scope |->
                       [data |-> arrData, callbacks |-> arrCallbacks]],
                       initial, LaterInstance)
                ELSE [id |-> inst, scope |-> NoArray]
         rec == IF kind = "record"
                THEN UseRecordScope([id |-> inst, scope |->
                       [ref |-> recRef, data |-> recData,
                        callbacks |-> recCallbacks]],
                       initial, LaterInstance)
                ELSE [id |-> inst, scope |-> NoRecord]
     IN /\ inst' = (CASE kind = "object" -> obj.id
                      [] kind = "array" -> arr.id
                      [] kind = "record" -> rec.id)
        /\ objData' = obj.scope.data
        /\ objCallbacks' = obj.scope.callbacks
        /\ arrData' = arr.scope.data
        /\ arrCallbacks' = arr.scope.callbacks
        /\ recRef' = rec.scope.ref
        /\ recData' = rec.scope.data
        /\ recCallbacks' = rec.scope.callbacks
  /\ call' = Called("render", NoKey, Undefined, <<>>, "returned", Undefined)
  /\ UNCHANGED <<kind, initial, keys, consumer>>

\* ---------------------------------------------------------- specification

Next ==
  \/ \E v \in ObjectValues \cup {Undefined, objData} : ObjectScopeSet(v)
  \/ ObjectGet
  \/ \E v \in ArrayValues \cup {arrData} : ArrayScopeSet(v)
  \/ ArrayScopeButton
  \/ ArrayGet
  \/ \E k \in Range(keys) : \E v \in ObjectValues : RecordScopeSet(k, v)
  \/ \E k \in Range(keys) : RecordScopeDelete(k)
  \/ \E k \in Range(keys) : RecordGet(k)
  \/ \E c \in Consumers : Mount(c)
  \/ \E c \in Consumers : Render(c)
  \/ \E c \in Consumers : Unmount(c)
  \/ OwnerRender

Spec == Init /\ [][Next]_vars

\* The mutation calls a program makes.
Mutations ==
  \/ \E v \in ObjectValues \cup {Undefined, objData} : ObjectScopeSet(v)
  \/ \E v \in ArrayValues \cup {arrData} : ArrayScopeSet(v)
  \/ \E k \in Range(keys) : \E v \in ObjectValues : RecordScopeSet(k, v)
  \/ \E k \in Range(keys) : RecordScopeDelete(k)

\* The program with a caller that keeps the unsubscribe functions it has
\* called and calls them again.
NextRelease ==
  \/ Mutations
  \/ \E c \in Consumers : Mount(c)
  \/ \E c \in Consumers : Render(c)
  \/ \E c \in Consumers : Release(c)
  \/ \E c \in Consumers : UnsubscribeAgain(c)

SpecRelease == Init /\ [][NextRelease]_vars

\* The caller changes the object it passed as the initial value in place:
\* it sets the field `value` of the object to n (removes it when n = 0), it
\* makes the array [0, ..., n - 1]. A container whose data is that object
\* (identity InitialRef) holds the change; `initial` keeps what the
\* constructor was given.
CallerMutates(n) ==
  /\ kind \in {"object", "array"}
  /\ initial # Undefined
  /\ LET changed == IF kind = "object" THEN Obj(InitialRef, n)
                    ELSE Arr(InitialRef, Iota(n))
     IN /\ objData' = IF kind = "object" /\ objData.ref = InitialRef
                      THEN changed ELSE objData
        /\ arrData' = IF kind = "array" /\ arrData.ref = InitialRef
                      THEN changed ELSE arrData
        /\ call' = Called("mutate initial", NoKey, changed, <<>>, "returned",
                          Undefined)
  /\ UNCHANGED <<kind, initial, keys, inst, recRef, objCallbacks, arrCallbacks,
                 recData, recCallbacks, consumer>>

\* The caller sets key prop of the mapping it passed as the initial value to
\* value, or removes the key (value = NoProp).
CallerMutatesRecord(prop, value) ==
  /\ kind = "record"
  /\ recData' = IF recRef = InitialRef THEN RecordDataSet(recData, prop, value)
                ELSE recData
  /\ call' = Called("mutate initial", NoKey, Undefined, <<>>, "returned",
                    Undefined)
  /\ UNCHANGED <<kind, initial, keys, inst, recRef, objData, objCallbacks, arrData,
                 arrCallbacks, recCallbacks, consumer>>

\* A second RecordScope constructed from the same initial mapping runs
\* set(prop, value): this.data[prop] = value writes into the mapping the
\* second container holds, which is the mapping of this container only when
\* both hold the caller's mapping. The copies two constructors make are two
\* objects.
SiblingSet(prop, value) ==
  /\ kind = "record"
  /\ LET sibling == RecordScopeNew(initial)
     IN recData' = IF sibling.ref = InitialRef /\ recRef = InitialRef
                   THEN RecordDataSet(recData, prop, value) ELSE recData
  /\ call' = Called("sibling set", NoKey, Undefined, <<>>, "returned", Undefined)
  /\ UNCHANGED <<kind, initial, keys, inst, recRef, objData, objCallbacks, arrData,
                 arrCallbacks, recCallbacks, consumer>>

\* ------------------------------------------ notification pass, step by step

\* A set or delete call has started and has not returned.
Running == call.status = "running"

\* The Set the forEach of the running call iterates, as the list of its
\* members in insertion order.
PassSet ==
  CASE kind = "object" -> objCallbacks
    [] kind = "array" -> arrCallbacks
    [] kind = "record" -> recCallbacks[ToPropertyKey(call.key)].set

\* What get() (get(prop) on a RecordScope) returns.
Get(prop) ==
  CASE kind = "object" -> ObjectScopeGet
    [] kind = "array" -> ArrayScopeGet
    [] kind = "record" -> RecordScopeGet(prop)

IndexOf(set, x) ==
  IF x \in Range(set) THEN CHOOSE i \in DOMAIN set : set[i] = x ELSE 0

\* A position that stays where it is when a member is deleted: the member
\* after a deleted, visited member is passed over.
NoShift(pos, set, d) == pos

\* Set.prototype.forEach visits the members in insertion order and follows
\* the Set as it changes: a member deleted before it is visited is not
\* visited, a member added during the iteration is visited at the end. pos
\* counts the members visited that are still in the list; deleting one of
\* them moves the position of the next member to visit.
Shift(pos, set, d) == IF IndexOf(set, d) \in 1..pos THEN pos - 1 ELSE pos

\* A set(prop, value) that notifies first and stores the value when the
\* notification pass is over.
SetBeginLate(prop, value) ==
  /\ ~Running
  /\ IF kind = "record" /\ RecordCallbacksGet(recCallbacks, prop) = "function"
     THEN call' = Called("set", prop, value, <<>>, "threw", Undefined)
     ELSE call' = [Called("set", prop, value,
                          IF kind = "record"
                          THEN recCallbacks[ToPropertyKey(prop)].set
                          ELSE ScopeCallbacks(1),
                          "running", Undefined)
                     EXCEPT !.frames = <<[op |-> "set", pos |-> 0]>>]
  /\ UNCHANGED <<kind, initial, keys, inst, recRef, objData, objCallbacks, arrData,
                 arrCallbacks, recData, recCallbacks, consumer>>

\* set starts: this.data = value (this.data[prop] = value), then emit begins
\* its forEach. On a RecordScope emit throws at once when this.callbacks[prop]
\* is an inherited function.
SetBegin(prop, value) ==
  /\ ~Running
  /\ objData' = IF kind = "object" THEN value ELSE objData
  /\ arrData' = IF kind = "array" THEN value ELSE arrData
  /\ recData' = IF kind = "record" THEN RecordDataSet(recData, prop, value)
                ELSE recData
  /\ IF kind = "record" /\ RecordCallbacksGet(recCallbacks, prop) = "function"
     THEN call' = Called("set", prop, value, <<>>, "threw", Undefined)
     ELSE call' = [Called("set", prop, value,
                          IF kind = "record"
                          THEN recCallbacks[ToPropertyKey(prop)].set
                          ELSE ScopeCallbacks(1),
                          "running", Undefined)
                     EXCEPT !.frames = <<[op |-> "set", pos |-> 0]>>,
                            !.owed = call.owed \cup
                              (IF kind = "record"
                               THEN Range(recCallbacks[ToPropertyKey(prop)].set)
                               ELSE Range(ScopeCallbacks(1)))]
  /\ UNCHANGED <<kind, initial, keys, inst, recRef, objCallbacks, arrCallbacks,
                 recCallbacks, consumer>>

\* delete starts: delete this.data[prop], then emit begins its forEach.
DeleteBegin(prop) ==
  /\ ~Running
  /\ kind = "record"
  /\ recData' = RecordDataDelete(recData, prop)
  /\ IF RecordCallbacksGet(recCallbacks, prop) = "function"
     THEN call' = Called("delete", prop, Undefined, <<>>, "threw", Undefined)
     ELSE call' = [Called("delete", prop, Undefined,
                          recCallbacks[ToPropertyKey(prop)].set, "running",
                          Undefined)
                     EXCEPT !.frames = <<[op |-> "delete", pos |-> 0]>>,
                            !.owed = call.owed \cup
                              Range(recCallbacks[ToPropertyKey(prop)].set)]
  /\ UNCHANGED <<kind, initial, keys, inst, recRef, objData, objCallbacks, arrData,
                 arrCallbacks, recCallbacks, consumer>>

\* A caller subscribes callback c for its scope while no call runs.
Subscribe(c) ==
  /\ ~Running
  /\ c \notin Range(ScopeCallbacks(c))
  /\ LET s == Subscribed(c, UseKey(c))
     IN /\ objCallbacks' = s.obj
        /\ arrCallbacks' = s.arr
        /\ recCallbacks' = s.rec
        /\ call' = [Called("subscribe", UseKey(c), Callback(c),
                           ScopeCallbacks(c),
                           IF s.threw THEN "threw" ELSE "returned", Undefined)
                      EXCEPT !.owed = call.owed]
  /\ UNCHANGED <<kind, initial, keys, inst, recRef, objData, arrData, recData,
                 consumer>>

\* A caller calls the unsubscribe function of callback c while no call runs.
Unsubscribe(c) ==
  /\ ~Running
  /\ c \in Range(ScopeCallbacks(c))
  /\ LET s == Unsubscribed(c, UseKey(c))
     IN /\ objCallbacks' = s.obj
        /\ arrCallbacks' = s.arr
        /\ recCallbacks' = s.rec
        /\ call' = [Called("unsubscribe", UseKey(c), Callback(c),
                           ScopeCallbacks(c),
                           IF s.threw THEN "threw" ELSE "returned", Undefined)
                      EXCEPT !.owed = call.owed \ {c}]
  /\ UNCHANGED <<kind, initial, keys, inst, recRef, objData, arrData, recData,
                 consumer>>

\* What a callback does besides the store-change handler when it is invoked:
\* nothing, or it calls the unsubscribe function of a callback, or it
\* subscribes a callback, or both in this order.
Acts == {"none", "unsubscribe", "subscribe", "resubscribe"}

\* forEach invokes the next member of the Set: the callback reads the value
\* with get, schedules its component as useSyncExternalStore does, and does
\* act for callback d of the same scope.
Invoke(act, d) ==
  /\ Running
  /\ LET top == Len(call.frames)
         pos == call.frames[top].pos
         cb == PassSet[pos + 1]
         raw == Get(call.key)
         s == CASE act = "none" ->
                     [obj |-> objCallbacks, arr |-> arrCallbacks,
                      rec |-> recCallbacks]
                [] act = "unsubscribe" -> Unsubscribed(d, call.key)
                [] act = "subscribe" -> Subscribed(d, call.key)
                [] act = "resubscribe" -> Resubscribed(d, call.key)
     IN /\ pos < Len(PassSet)
        /\ act \in {"unsubscribe", "resubscribe"} => d \in Range(PassSet)
        /\ kind = "record" =>
             ToPropertyKey(UseKey(d)) = ToPropertyKey(call.key)
        /\ act = "none" => d = cb
        /\ objCallbacks' = s.obj
        /\ arrCallbacks' = s.arr
        /\ recCallbacks' = s.rec
        /\ consumer' = HandleStoreChange(consumer, cb, raw)
        /\ call' = [call EXCEPT
             !.frames[top].pos =
               IF act \in {"unsubscribe", "resubscribe"}
               THEN Shift(pos + 1, PassSet, d) ELSE pos + 1,
             !.invoked = IF Len(@) <= NumConsumers THEN Append(@, cb) ELSE @,
             !.removed = IF act = "unsubscribe" THEN @ \cup {d} ELSE @,
             !.added = IF act \in {"subscribe", "resubscribe"}
                       THEN @ \cup {d} ELSE @,
             !.seen = @ \cup {raw},
             !.owed = IF act \in {"unsubscribe", "resubscribe"}
                      THEN @ \ {cb, d} ELSE @ \ {cb}]
  /\ UNCHANGED <<kind, initial, keys, inst, recRef, objData, arrData, recData>>

\* An emit that returns at once when it is called during a notification
\* pass: the forEach of a nested call visits no member.
NestedSkip(set) == Len(set)

\* emit called by a set or delete that a callback makes: its forEach starts
\* at the first member of the Set while the forEach of the outer call waits.
NestedStart(set) == 0

\* forEach invokes the next member of the Set, a callback that has not
\* written during this outermost call: it reads the value and calls
\* set(value) (set(prop, value) with the key of the running call), or
\* delete(prop) when op = "delete". The nested call stores the value and
\* begins its own pass.
InvokeWriter(op, value) ==
  /\ Running
  /\ op = "delete" => kind = "record"
  /\ LET top == Len(call.frames)
         pos == call.frames[top].pos
         cb == PassSet[pos + 1]
         raw == Get(call.key)
     IN /\ pos < Len(PassSet)
        /\ cb \notin call.wrote
        /\ consumer' = HandleStoreChange(consumer, cb, raw)
        /\ call' = [call EXCEPT
             !.frames = Append([@ EXCEPT ![top].pos = pos + 1],
                               [op |-> op, pos |-> NestedStart(PassSet)]),
             !.invoked = IF Len(@) <= NumConsumers THEN Append(@, cb) ELSE @,
             !.seen = @ \cup {raw},
             !.wrote = @ \cup {cb},
             !.owed = (@ \ {cb}) \cup Range(PassSet)]
  /\ objData' = IF kind = "object" THEN value ELSE objData
  /\ arrData' = IF kind = "array" THEN value ELSE arrData
  /\ recData' = IF kind # "record" THEN recData
                ELSE IF op = "delete" THEN RecordDataDelete(recData, call.key)
                ELSE RecordDataSet(recData, call.key, value)
  /\ UNCHANGED <<kind, initial, keys, inst, recRef, objCallbacks, arrCallbacks,
                 recCallbacks>>

\* The innermost forEach has visited every member: emit returns; delete
\* clears and removes the Set of the key; set returns this.data
\* (this.data[prop]). The callback that made a nested call returns with it,
\* and the forEach of the outer call goes on.
Return ==
  /\ Running
  /\ LET top == Len(call.frames)
     IN /\ call.frames[top].pos >= Len(PassSet)
        /\ recCallbacks' =
             IF call.frames[top].op = "delete"
             THEN RecordCallbacksDelete(recCallbacks, call.key)
             ELSE recCallbacks
        /\ call' = [call EXCEPT
             !.frames = SubSeq(@, 1, top - 1),
             !.status = IF top = 1 THEN "returned" ELSE "running",
             !.ret = IF top = 1 /\ call.op = "set" THEN Get(call.key)
                     ELSE Undefined,
             !.owed = IF call.frames[top].op = "delete"
                      THEN @ \ Range(PassSet) ELSE @]
  /\ UNCHANGED <<kind, initial, keys, inst, recRef, objData, objCallbacks, arrData,
                 arrCallbacks, recData, consumer>>

\* The hosted components of a program: they mount, render and unmount.
Hosted ==
  \/ \E c \in Consumers : Mount(c)
  \/ \E c \in Consumers : Render(c)
  \/ \E c \in Consumers : Unmount(c)

\* The program with handlers that make two mutation calls in a row: the same
\* value twice, or on an ObjectScope a value and then the previous value
\* again.
NextHandler ==
  \/ Mutations
  \/ Hosted
  \/ \E v \in ObjectValues \cup {Undefined} :
       \E w \in {v, objData} : ObjectScopeSetTwice(v, w)
  \/ \E v \in ArrayValues : ArrayScopeSetTwice(v, v)
  \/ \E k \in Range(keys) : \E v \in ObjectValues : RecordScopeSetTwice(k, v, v)

SpecHandler == Init /\ [][NextHandler]_vars

\* The program with handlers whose set invokes a callback that writes the
\* previous value back (on a RecordScope: that deletes a key that had no
\* entry).
NextReentrant ==
  \/ Mutations
  \/ Hosted
  \/ \E v \in ObjectValues : ObjectScopeSetReentrant(v, objData)
  \/ \E v \in ArrayValues : ArrayScopeSetReentrant(v, arrData)
  \/ \E k \in Range(keys) :
       RecordScopeSetReentrant(k, Obj(CallerRef, 1), recData[ToPropertyKey(k)])

SpecReentrant == Init /\ [][NextReentrant]_vars

\* The program with a caller that calls subscribe itself.
NextDirect ==
  \/ Mutations
  \/ \E c \in Consumers : Mount(c)
  \/ \E c \in Consumers : Render(c)
  \/ \E c \in Consumers : Unmount(c)
  \/ \E c \in Consumers : SubscribeAgain(c)

SpecDirect == Init /\ [][NextDirect]_vars

\* The program with a caller that calls subscribe itself and calls the
\* unsubscribe functions it holds.
NextHeld ==
  \/ NextDirect
  \/ \E c \in Consumers : UnsubscribeOne(c)
  \/ \E c \in Consumers : SubscribeAfterDelete(c)
  \/ \E c \in Consumers : StaleUnsubscribe(c)

SpecHeld == Init /\ [][NextHeld]_vars

\* The program with a caller that keeps the object it passed as the initial
\* value and changes it, and with a second container made from that object.
NextCaller ==
  \/ Mutations
  \/ Hosted
  \/ \E n \in 0..MaxValue : kind = "object" /\ CallerMutates(n)
  \/ \E n \in 0..MaxLen : kind = "array" /\ CallerMutates(n)
  \/ \E k \in Range(keys) : \E v \in ObjectValues \cup {NoProp} :
       CallerMutatesRecord(k, v)
  \/ \E k \in Range(keys) : \E v \in ObjectValues : SiblingSet(k, v)

SpecCaller == Init /\ [][NextCaller]_vars

\* The values a caller passes to set of the container in use.
SetValues == IF kind = "array" THEN ArrayValues ELSE ObjectValues

\* The keys a caller passes to set: those of the program on a RecordScope.
SetKeys == IF kind = "record" THEN Range(keys) ELSE {NoKey}

\* The program of a caller that subscribes callbacks itself, with the
\* notification pass of a set or delete followed one callback at a time, and
\* with callbacks that unsubscribe callbacks of their scope. One call runs
\* at a time.
NextPass ==
  \/ \E c \in Consumers : Subscribe(c)
  \/ \E c \in Consumers : Unsubscribe(c)
  \/ \E k \in SetKeys : \E v \in SetValues : SetBegin(k, v)
  \/ \E k \in Range(keys) : DeleteBegin(k)
  \/ \E act \in {"none", "unsubscribe"} : \E d \in Consumers : Invoke(act, d)
  \/ Return

SpecPass == Init /\ [][NextPass]_vars

\* The same program with callbacks that also subscribe callbacks of their
\* scope. A call that has started goes on: the next callback is invoked, or
\* the call returns.
NextLive ==
  \/ \E c \in Consumers : Subscribe(c)
  \/ \E c \in Consumers : Unsubscribe(c)
  \/ \E k \in SetKeys : \E v \in SetValues : SetBegin(k, v)
  \/ \E k \in Range(keys) : DeleteBegin(k)
  \/ \E act \in Acts : \E d \in Consumers : Invoke(act, d)
  \/ Return

PassStep == (\E act \in Acts : \E d \in Consumers : Invoke(act, d)) \/ Return

SpecLive == Init /\ [][NextLive]_vars /\ WF_vars(PassStep)

\* The value a writing callback passes to set: it resets the scope to an
\* empty array, or to one object of its own.
WriterValue ==
  IF kind = "array" THEN Arr(CallerRef, <<>>) ELSE Obj(CallerRef, 1)

\* The same program with callbacks that also call set or delete, once each
\* during one outermost call, so that notification passes nest.
NextNested ==
  \/ NextPass
  \/ \E op \in {"set", "delete"} : InvokeWriter(op, WriterValue)

SpecNested == Init /\ [][NextNested]_vars

\* ------------------------------------------------------------- properties

\* How many times callback x occurs in the sequence s.
Count(x, s) == Cardinality({i \in DOMAIN s : s[i] = x})

\* The one scope of an ObjectScope or ArrayScope.
ScopeOf(k) == [type |-> "scope", name |-> k]

\* The scopes callback c is registered for: the scope of the ObjectScope or
\* ArrayScope, or property keys of the RecordScope.
RegisteredAt(c) ==
  {k \in {ScopeOf("object")} : c \in Range(objCallbacks)}
    \cup {k \in {ScopeOf("array")} : c \in Range(arrCallbacks)}
    \cup {p \in PropKeys : c \in Range(recCallbacks[p].set)}

\* The scope component c subscribes to.
OwnScope(c) ==
  IF kind = "record" THEN ToPropertyKey(UseKey(c)) ELSE ScopeOf(kind)

\* The last container method call was a mutation.
Mutated == call.op \in {"set", "delete"}

C2_DistinctKeys ==
  (kind = "record" /\ Mutated) =>
    \A c \in Range(call.invoked) : UseKey(c) = call.key

\* C2 (Key isolation), amended: for keys A and B naming different properties
\* (a number names the property of its decimal string), set(A, ...) and
\* delete(A) never invoke a callback registered only for key B.
C2_KeyIsolation ==
  (kind = "record" /\ Mutated) =>
    \A c \in Range(call.invoked) :
      ToPropertyKey(UseKey(c)) = ToPropertyKey(call.key)

\* A set returned that invoked a callback while a mounted component was
\* registered for a key naming another property.
C2_Witness ==
  /\ kind = "record"
  /\ call.op = "set"
  /\ call.status = "returned"
  /\ call.invoked # <<>>
  /\ \E c \in Consumers :
       /\ consumer[c].mounted
       /\ ToPropertyKey(UseKey(c)) # ToPropertyKey(call.key)
       /\ OwnScope(c) \in RegisteredAt(c)

\* An unmounted component has called its unsubscribe function: its callback
\* is registered nowhere and no mutation invokes it; a callback is
\* registered for no scope but its own.
C3_Unsubscribed ==
  \A c \in Consumers :
    /\ RegisteredAt(c) \subseteq {OwnScope(c)}
    /\ ~consumer[c].mounted =>
         /\ RegisteredAt(c) = {}
         /\ Mutated => c \notin Range(call.invoked)

\* The unsubscribe function of an unmounting component leaves the
\* registration of every component that stays mounted as it was, and the
\* re-subscription of a rendering component removes no registration.
C3_OthersKept ==
  /\ call'.op = "unsubscribe" =>
       \A c \in Consumers :
         consumer'[c].mounted => RegisteredAt(c)' = RegisteredAt(c)
  /\ call'.op = "use" =>
       \A c \in Consumers : RegisteredAt(c) \subseteq RegisteredAt(c)'

\* C3 (Unsubscribe correctness): after the function subscribe returned is
\* called, no later set or delete invokes the callback, whatever operations
\* follow; the call removes the callback from the scope it was registered
\* for and changes no other registration.
C3_UnsubscribeCorrect == []C3_Unsubscribed /\ [][C3_OthersKept]_vars

\* An unsubscribe function returned while another callback stays registered.
C3_Witness ==
  /\ call.op = "unsubscribe"
  /\ call.status = "returned"
  /\ \E c, d \in Consumers :
       /\ ~consumer[c].mounted
       /\ consumer[d].mounted
       /\ OwnScope(d) = OwnScope(c)
       /\ RegisteredAt(d) = {OwnScope(d)}

\* C4 (Consumer consistency): a mounted component that read the container
\* through use re-renders whenever a later mutation makes its snapshot
\* differ from what it last read, delete(k) followed by set(k, v) included.
C4_ConsumerConsistency ==
  [][ call'.op \in {"set", "delete"} =>
        \A c \in Consumers :
          (consumer[c].mounted /\ GetSnapshot(c, UseKey(c))' # consumer[c].value)
            => consumer'[c].pending ]_vars

\* After set(v) of an ObjectScope or ArrayScope returns, get() returns v, set
\* returned v, and the next read of a component that passes no snapshot
\* function is v.
C5_Stored ==
  (kind \in {"object", "array"} /\ call.op = "set") =>
    /\ call.status = "returned"
    /\ call.ret = call.arg
    /\ (IF kind = "object" THEN ObjectScopeGet ELSE ArrayScopeGet) = call.arg
    /\ \A c \in Consumers :
         UsesDefault(c) => GetSnapshot(c, UseKey(c)) = call.arg

\* set(get() extended by one) turns [0] into [0, 1] and [0, 1] into [0, 1, 2].
C5_Chain ==
  (kind = "array" /\ call'.op = "set"
     /\ Len(arrData.val) >= 1 /\ call'.arg.val = Extended(arrData.val)) =>
    /\ arrData'.val = Extended(arrData.val)
    /\ arrData.val = <<0>> => arrData'.val = <<0, 1>>
    /\ arrData.val = <<0, 1>> => arrData'.val = <<0, 1, 2>>

\* C5 (Scalar/Sequence semantics): set(v) replaces the stored value
\* wholesale, so that get() and the next read of every default consumer
\* return v, and a sequence of calls set(get() extended by one) starting
\* from [0] yields [0, 1] and then [0, 1, 2].
C5_ScalarSequence == []C5_Stored /\ [][C5_Chain]_vars

\* An ArrayScope built from [0] holds [0, 1, 2] after a set that notified a
\* component reading it with no snapshot function.
C5_Witness ==
  /\ kind = "array"
  /\ initial.tag = "array"
  /\ initial.val = <<0>>
  /\ call.op = "set"
  /\ arrData.val = <<0, 1, 2>>
  /\ \E c \in Range(call.invoked) : UsesDefault(c) /\ consumer[c].pending

\* C6 (Keyed semantics): set(k, v) makes get(k) return v, delete(k) makes
\* get(k) return undefined, and each leaves the value get(j) returns
\* unchanged for every key j naming another property than k.
C6_KeyedSemantics ==
  [][ kind = "record" =>
        /\ call'.op = "set" => RecordDataGet(recData', call'.key) = call'.arg
        /\ call'.op = "delete" => RecordDataGet(recData', call'.key) = Undefined
        /\ call'.op \in {"set", "delete"} =>
             \A j \in Range(keys) :
               ToPropertyKey(j) # ToPropertyKey(call'.key) =>
                 RecordDataGet(recData', j) = RecordDataGet(recData, j) ]_vars

\* C7 (Absent semantics): for every key with no entry (never set, or
\* deleted), get(key) returns undefined and use(key) with no snapshot
\* function reads undefined.
C7_AbsentSemantics ==
  kind = "record" =>
    \A k \in Range(keys) :
      recData[ToPropertyKey(k)] = NoProp =>
        /\ RecordScopeGet(k) = Undefined
        /\ DefaultSnapshot(RecordDataGet(recData, k)) = Undefined

\* The owner's hook state holds the container built by its first render.
C8_SameInstance == inst = FirstInstance

\* A render of the owner changes neither the stored value nor the subscriber
\* sets, and the stored value changes in no step but a set or delete.
C8_NotReset ==
  /\ call'.op = "render" =>
       UNCHANGED <<objData, arrData, recData, objCallbacks, arrCallbacks,
                   recCallbacks>>
  /\ (objData' # objData \/ arrData' # arrData \/ recData' # recData) =>
       call'.op \in {"set", "delete"}

\* C8 (Identity stability): a factory hook returns the same container on
\* every render of the component that called it, so the value is the one
\* the last mutation wrote and is never reset to the initial value.
C8_IdentityStable == []C8_SameInstance /\ [][C8_NotReset]_vars

\* The owner rendered again after a set replaced the initial value while a
\* component was subscribed.
C8_Witness ==
  /\ kind = "object"
  /\ call.op = "render"
  /\ objData # ObjectScopeNew(initial).data
  /\ objCallbacks # <<>>

\* What get() - get(key) for the key component c uses - returns.
RawValue(c) ==
  CASE kind = "object" -> ObjectScopeGet
    [] kind = "array" -> ArrayScopeGet
    [] kind = "record" -> RecordScopeGet(UseKey(c))

\* The snapshot of component c: its snapshot function applied to the raw
\* value, the raw value itself when it passes none.
Projected(c) ==
  IF UsesDefault(c) THEN RawValue(c) ELSE CustomSnapshot(RawValue(c))

\* A component is scheduled to re-render only when its snapshot is no longer
\* the value it last read, and a render reads the snapshot.
C9_OnlyOnChange ==
  \A c \in Consumers :
    /\ (consumer[c].mounted /\ ~consumer[c].pending /\ consumer'[c].pending)
         => Projected(c)' # consumer[c].value
    /\ (call'.op = "use" /\ consumer'[c] # consumer[c] /\ consumer'[c].mounted)
         => consumer'[c] = Rendered(Projected(c)')

\* C9 (Projection suppression): a component reading through use(project)
\* is not re-rendered by a mutation after which project(new value) is
\* identical to the result it last read; with no projection the snapshot is
\* the raw value (the value at the key for a RecordScope).
C9_ProjectionSuppression == [][C9_OnlyOnChange]_vars

\* A set invoked the callbacks of two components: the one reading the raw
\* value is scheduled to re-render, the one reading a projection is not.
C9_Witness ==
  /\ call.op = "set"
  /\ \E c, d \in Range(call.invoked) :
       /\ UsesDefault(c) /\ consumer[c].pending
       /\ ~UsesDefault(d) /\ consumer[d].mounted /\ ~consumer[d].pending

\* A call of get changes nothing but the caller's result; a snapshot read by
\* use changes no stored value, removes no registration and invokes no
\* callback.
C10_ReadOnly ==
  /\ call'.op = "get" =>
       /\ UNCHANGED <<objData, arrData, recData, objCallbacks, arrCallbacks,
                      recCallbacks, consumer>>
       /\ call'.invoked = <<>>
  /\ call'.op = "use" =>
       /\ UNCHANGED <<objData, arrData, recData>>
       /\ call'.invoked = <<>>
       /\ \A c \in Consumers :
            /\ consumer'[c].pending => consumer[c].pending
            /\ RegisteredAt(c) \subseteq RegisteredAt(c)'

\* C10 (No-notify-on-read): get (for present and absent keys) and the
\* snapshot read issued by use change neither the stored value nor any
\* subscriber set and invoke no callback.
C10_NoNotifyOnRead == [][C10_ReadOnly]_vars

\* get returned for a key with no entry while a component was subscribed.
C10_Witness ==
  /\ kind = "record"
  /\ call.op = "get"
  /\ recData[ToPropertyKey(call.key)] = NoProp
  /\ \E c \in Consumers : consumer[c].mounted /\ RegisteredAt(c) # {}

\* C11 (Delete order): when delete(k) returns the entry of k is removed,
\* every callback that was registered for k has been invoked and has read
\* the absent value (a component that had rendered a value is scheduled to
\* re-render), and the subscriber set of k is discarded, so that k has no
\* registered callback and a later subscribe starts a new set.
C11_DeleteOrder ==
  (kind = "record" /\ call.op = "delete" /\ call.status = "returned") =>
    /\ recData[ToPropertyKey(call.key)] = NoProp
    /\ recCallbacks[ToPropertyKey(call.key)] = NoSet
    /\ call.invoked = call.regd
    /\ \A c \in Range(call.regd) :
         (consumer[c].mounted /\ consumer[c].value # Undefined)
           => consumer[c].pending

\* delete returned after notifying a component that had rendered the entry.
C11_Witness ==
  /\ kind = "record"
  /\ call.op = "delete"
  /\ call.status = "returned"
  /\ \E c \in Range(call.regd) :
       consumer[c].value # Undefined /\ consumer[c].pending

\* C12 (Delete of an absent key): delete(k) on a key with no entry raises no
\* error, leaves the value get returns unchanged for every key, and invokes
\* every callback registered for k exactly once.
C12_AbsentDelete ==
  [][ (kind = "record" /\ call'.op = "delete"
         /\ recData[ToPropertyKey(call'.key)] = NoProp) =>
        /\ call'.status = "returned"
        /\ \A j \in Range(keys) :
             RecordDataGet(recData', j) = RecordDataGet(recData, j)
        /\ \A c \in Consumers :
             Count(c, call'.invoked)
               = (IF c \in Range(recCallbacks[ToPropertyKey(call'.key)].set)
                  THEN 1 ELSE 0) ]_vars

\* C13 (Idempotent unsubscribe): a second or later call of an unsubscribe
\* function raises no error and changes neither the container's value nor
\* any subscriber set, whatever operations other than a subscribe of the same
\* callback happened since the first call.
C13_SecondUnsubscribe ==
  [][ call'.op = "unsubscribe again" =>
        /\ call'.status = "returned"
        /\ UNCHANGED <<objData, arrData, recRef, recData, objCallbacks,
                       arrCallbacks, recCallbacks, consumer>> ]_vars

\* An unsubscribe function was called again while another callback was
\* registered for its scope.
C13_Witness ==
  /\ call.op = "unsubscribe again"
  /\ call.status = "returned"
  /\ call.regd # <<>>
  /\ consumer[call.arg.ref].released

\* C14 (Deduplication): a subscriber set holds a callback once; subscribe
\* with a callback that is registered for the scope leaves the subscriber
\* set as it was, and a mutation invokes a callback at most once, exactly
\* once when it is registered for the mutated scope.
C14_Deduplicated ==
  /\ \A c \in Consumers :
       /\ Count(c, objCallbacks) <= 1
       /\ Count(c, arrCallbacks) <= 1
       /\ \A p \in PropKeys : Count(c, recCallbacks[p].set) <= 1
  /\ call.op = "subscribe" =>
       /\ call.status = "returned"
       /\ call.arg.ref \in Range(call.regd)
       /\ ScopeCallbacks(call.arg.ref) = call.regd
  /\ Mutated =>
       \A c \in Range(call.regd) : Count(c, call.invoked) = 1

\* subscribe returned for a callback that was one of two registered for the
\* scope.
C14_Witness ==
  /\ call.op = "subscribe"
  /\ call.status = "returned"
  /\ Len(call.regd) >= 2
  /\ call.arg.ref \in Range(call.regd)

C16_NoCoalescing ==
  Mutated =>
    \A c \in Range(call.regd) :
      /\ Count(c, call.invoked) = 1
      /\ \A i \in DOMAIN call.earlier : Count(c, call.earlier[i]) = 1

\* The second set of a handler returned, with two callbacks registered.
C16_Witness ==
  /\ call.op = "set"
  /\ call.status = "returned"
  /\ Len(call.earlier) = 1
  /\ Len(call.regd) >= 2

\* The owned value of the container in use is another object than before
\* the step: the value of an ObjectScope, the array of an ArrayScope, the
\* mapping of a RecordScope.
IdentityChanged ==
  CASE kind = "object" -> objData' # objData
    [] kind = "array" -> arrData' # arrData
    [] kind = "record" -> recRef' # recRef

\* C17 as stated (Value reference): every set and delete call changes the
\* identity of the container's owned value, and no other operation changes
\* it.
C17_IdentityChanges == [][Mutated' <=> IdentityChanged]_vars

\* C17 (Value reference): only set and delete change the owned value. The
\* argument of set(value) on an ObjectScope or ArrayScope becomes the owned
\* value itself, so its identity changes exactly when the argument is
\* another object than the one held; set and delete on a RecordScope change
\* the entry of the key in the mapping the constructor made, whose identity
\* never changes.
C17_ValueReference ==
  [][ /\ ~Mutated' => UNCHANGED <<objData, arrData, recData, recRef>>
      /\ recRef' = recRef
      /\ (Mutated' /\ kind = "object") =>
           /\ objData' = call'.arg
           /\ IdentityChanged <=> call'.arg # objData
      /\ (Mutated' /\ kind = "array") =>
           /\ arrData' = call'.arg
           /\ IdentityChanged <=> call'.arg # arrData
      /\ (Mutated' /\ kind = "record") =>
           recData'[ToPropertyKey(call'.key)]
             = (IF call'.op = "set" THEN call'.arg ELSE NoProp) ]_vars

\* set was called with the object the constructor made, which only get
\* hands out: the ObjectScope holds that same object after the call.
C17_Witness ==
  /\ kind = "object"
  /\ call.op = "set"
  /\ call.arg.ref = OwnRef
  /\ call.arg.tag = "object"
  /\ objData = call.arg

\* What get returns: the value of an ObjectScope, the array of an
\* ArrayScope, the value at each key of a RecordScope.
GetAll ==
  CASE kind = "object" -> <<ObjectScopeGet>>
    [] kind = "array" -> <<ArrayScopeGet>>
    [] kind = "record" -> [i \in DOMAIN keys |-> RecordScopeGet(keys[i])]

\* C18 (Shallow copy at construction): a change the caller makes to a
\* top-level field, element or key of the object it passed as the initial
\* value leaves what get returns unchanged, and so does a set of a second
\* container constructed from the same object.
C18_ShallowCopy ==
  [][call'.op \in {"mutate initial", "sibling set"} => GetAll' = GetAll]_vars

\* The caller gave the object it had passed as the initial value another
\* content while the container held the copy its constructor made.
C18_Witness ==
  /\ call.op = "mutate initial"
  /\ kind = "object"
  /\ call.arg.val # initial.val
  /\ objData.ref = OwnRef
  /\ objData.val = initial.val

\* Two values are equal by content: the identity of an object or array is
\* not compared.
Equal(a, b) == a.tag = b.tag /\ a.val = b.val

\* The value the constructor was given, as get is expected to return it: the
\* initial value of an ObjectScope, the initial array of an ArrayScope (the
\* empty array when it was omitted), the initial value at key prop of a
\* RecordScope.
InitialValue(prop) ==
  CASE kind = "object" -> initial
    [] kind = "array" -> IF initial = Undefined THEN Arr(OwnRef, <<>>) ELSE initial
    [] kind = "record" -> initial[ToPropertyKey(prop)]

\* C19 (Initial value): the first get() after construction returns a value
\* equal to the initial value, and the first use() returns the snapshot of a
\* value equal to it; on a RecordScope, for each key of the initial mapping.
C19_InitialValue ==
  [][ ( /\ call.op = "none"
        /\ call'.op \in {"get", "use"}
        /\ call'.status = "returned"
        /\ kind = "record" => InitialValue(call'.key) # NoProp ) =>
        /\ call'.op = "get" => Equal(call'.ret, InitialValue(call'.key))
        /\ call'.op = "use" =>
             \A c \in Consumers :
               consumer'[c].mounted =>
                 Equal(call'.ret, ApplySnapshot(c, InitialValue(call'.key))) ]_vars

\* C20 (Return value of set): the value a call of set returns is the value
\* get returns when the call has returned (get(k) for set(k, v)), also when
\* a callback has written to the container during the notification pass;
\* when no callback has written it is the argument of set.
C20_SetReturnsCurrent ==
  (call.op = "set" /\ call.status = "returned") =>
    /\ call.ret = (CASE kind = "object" -> ObjectScopeGet
                     [] kind = "array" -> ArrayScopeGet
                     [] kind = "record" -> RecordScopeGet(call.key))
    /\ call.nested = <<>> => call.ret = call.arg

\* set returned another value than its argument: a callback wrote during the
\* notification pass, after a registered callback had been invoked.
C20_Witness ==
  /\ call.op = "set"
  /\ call.status = "returned"
  /\ call.nested # <<>>
  /\ call.invoked # <<>>
  /\ call.ret # call.arg

\* C21 (Totality): on a RecordScope no call of get, set, delete, subscribe
\* (made by `use`) or an unsubscribe function raises an error, for any key
\* and in any state; get of a key with no entry returns undefined.
C21_Totality ==
  kind = "record" =>
    /\ call.status # "threw"
    /\ (call.op = "get" /\ recData[ToPropertyKey(call.key)] = NoProp) =>
         call.ret = Undefined

\* While callbacks of a pass only unsubscribe: no callback is invoked twice,
\* the call does not throw once its pass has begun, an unsubscribed callback
\* is in the Set no more, and when the call has returned every callback that
\* was registered at its start and was not unsubscribed has been invoked
\* exactly once.
C22_PassState ==
  (Mutated /\ call.added = {}) =>
    /\ \A c \in Consumers : Count(c, call.invoked) <= 1
    /\ call.invoked # <<>> => call.status # "threw"
    /\ Running => call.removed \cap Range(PassSet) = {}
    /\ call.status = "returned" =>
         \A c \in Range(call.regd) \ call.removed : Count(c, call.invoked) = 1

\* A callback that was unsubscribed during the pass is not invoked later in
\* the pass.
C22_NotAfterRemoval ==
  (Running /\ call'.invoked # call.invoked) =>
    call'.invoked[Len(call'.invoked)] \notin call.removed

\* C22 (Unsubscribe during a pass): a notification pass in which a callback
\* unsubscribes a callback of the same pass raises no error, does not invoke
\* the unsubscribed callback after its removal, and invokes every other
\* callback registered at the start of the pass exactly once.
C22_UnsubscribeInPass == []C22_PassState /\ [][C22_NotAfterRemoval]_vars

\* A call returned whose pass had two callbacks at its start: the first
\* unsubscribed itself, a visited member of the Set, and the second was
\* invoked.
C22_Witness ==
  /\ Mutated
  /\ call.status = "returned"
  /\ Len(call.regd) >= 2
  /\ call.regd[1] \in call.removed
  /\ call.invoked = SubSeq(call.regd, 1, 2)

\* C23 (Stable snapshot): a notification pass invokes no callback that was
\* not registered when the pass started, and no callback more than once.
C23_StableSnapshot ==
  Mutated =>
    /\ Range(call.invoked) \subseteq Range(call.regd)
    /\ \A c \in Consumers : Count(c, call.invoked) <= 1

\* C24 (Termination): a set or delete call that has started returns (or
\* throws), whatever its callbacks subscribe and unsubscribe, as long as no
\* callback calls set or delete.
C24_Terminates == Running ~> ~Running

\* C25 (Replace before notify): every value a callback invoked by set(v)
\* (set(k, v)) reads with get() (get(k)) is v, when no callback of the pass
\* writes to the container: no callback reads the value the call replaced.
C25_ReplacedFirst == call.op = "set" => call.seen \subseteq {call.arg}

\* Two callbacks have been invoked by one set and have read its argument.
C25_Witness ==
  /\ call.op = "set"
  /\ Len(call.invoked) >= 2
  /\ call.seen = {call.arg}

\* The last call and the call of this step are for the same scope.
SameScope ==
  kind = "record" => ToPropertyKey(call'.key) = ToPropertyKey(call.key)

\* C26 (Registration per subscribe): after subscribe was called twice with
\* one callback for one scope and one of the two unsubscribe functions was
\* called, the next mutation of the scope still invokes the callback.
C26_StillRegistered ==
  [][ ( /\ call.op = "unsubscribe one"
        /\ Mutated'
        /\ call'.status = "returned"
        /\ SameScope ) =>
        call.arg.ref \in Range(call'.invoked) ]_vars

\* C27 (Unsubscribe function from before a delete): called after delete(k),
\* it raises no error and leaves every callback registered that was
\* subscribed to k after the delete: the next set(k, v) invokes the callback
\* that was subscribed again.
C27_StaleUnsubscribe ==
  [][ /\ call'.op = "stale unsubscribe" => call'.status = "returned"
      /\ ( /\ call.op = "stale unsubscribe"
           /\ call'.op = "set"
           /\ call'.status = "returned"
           /\ SameScope ) =>
           call.arg.ref \in Range(call'.invoked) ]_vars

\* C28 (No lost update): whenever no set or delete call is running, every
\* callback that is registered and has been registered since before the last
\* change of its scope's value has been invoked after that change, also when
\* callbacks call set or delete during a pass.
C28_NoLostUpdate == ~Running => call.owed = {}

\* A call returned during which the second of two registered callbacks
\* wrote: the first had been invoked before that change, and both are still
\* registered.
C28_Witness ==
  /\ Mutated
  /\ call.status = "returned"
  /\ Len(call.regd) >= 2
  /\ call.wrote = {call.regd[2]}
  /\ PassSet = call.regd

====
